---- MODULE Spec2Model ----
(***************************************************************************)
(* Conversation-session state machine of src/app.py: the Streamlit script  *)
(* that keeps st.session_state.messages and                                *)
(* st.session_state.previous_response_id, builds the multi-modal input     *)
(* parts and calls the remote Responses API once per submitted prompt.     *)
(***************************************************************************)
EXTENDS Integers, Sequences, FiniteSets, TLC

VARIABLES
  messages,              \* st.session_state.messages
  previous_response_id,  \* st.session_state.previous_response_id
  pc,                    \* position of the script run
  prompt,                \* value returned by st.chat_input in the current run
  uploaded,              \* files returned by st.file_uploader in the current run
  images,                \* local "images" of the submit flow
  parts,                 \* local "parts" of the submit flow
  response,              \* local "response" of the submit flow
  callToken,             \* argument previous_response_id of call_responses_api
  ncalls,                \* number of client.responses.create calls issued
  inflight,              \* remote calls issued and not yet returned or raised
  outcome,               \* what the last finished run reported to the user
  snap,                  \* session state and call count when the current run began
  lastOk,                \* response of the last successful call since start or reset
  OPENAI_API_KEY,        \* os.getenv("OPENAI_API_KEY")
  VECTOR_STORE_ID,       \* os.getenv("VECTOR_STORE_ID")
  warnings               \* st.warning messages shown by the startup

vars == <<messages, previous_response_id, pc, prompt, uploaded, images, parts,
          response, callToken, ncalls, inflight, outcome, snap, lastOk,
          OPENAI_API_KEY, VECTOR_STORE_ID, warnings>>

config == <<OPENAI_API_KEY, VECTOR_STORE_ID, warnings>>

----------------------------------------------------------------------------
(* Bounds *)

MaxCalls == 3      \* remote calls per behaviour
MaxLen == 3        \* characters of a prompt given to build_input_parts
MaxImgs == 2       \* uploaded files given to build_input_parts
MaxTextCalls == 4  \* remote calls per behaviour of the text-only session

----------------------------------------------------------------------------
(* Values *)

None == 0                  \* Python None (response ids are 1, 2, ...)
NoIdAttr == 0 - 1          \* the response object has no attribute "id"
NoAttr == "NoAttr"         \* the response object has no attribute "output_text"

Unset == "<unset>"         \* os.getenv returned None
Whitespace == {" "}
Chars == {" ", "a", "b"}

RECURSIVE SeqsUpTo(_, _)
SeqsUpTo(S, n) ==
  IF n = 0 THEN {<<>>}
  ELSE LET shorter == SeqsUpTo(S, n - 1)
       IN shorter \cup {Append(s, x) : s \in {t \in shorter : Len(t) = n - 1}, x \in S}

\* an uploaded file: its MIME type ("" when the browser gave none) and bytes
Files == [type : {"", "image/jpeg"}, data : {"b1", "b2"}]

\* inputs of the pure builder
Texts == SeqsUpTo(Chars, MaxLen)
Uploads == SeqsUpTo(Files, MaxImgs)

\* inputs of the session run: prompts typed into st.chat_input, files attached
Prompts == {<<" ">>, <<"a">>, <<" ", "a", " ">>}
Attachments == {<<>>,
                <<[type |-> "", data |-> "b1"]>>,
                <<[type |-> "image/jpeg", data |-> "b2"], [type |-> "", data |-> "b1"]>>}

\* response.output_text as delivered by the provider
OutputTexts == {"", "ans"}

NoResponse == [id |-> NoIdAttr, output_text |-> NoAttr]

----------------------------------------------------------------------------
(* Helper functions of app.py *)

RECURSIVE LStrip(_)
LStrip(s) ==
  IF s = <<>> THEN s
  ELSE IF Head(s) \in Whitespace THEN LStrip(Tail(s)) ELSE s

RECURSIVE RStrip(_)
RStrip(s) ==
  IF s = <<>> THEN s
  ELSE IF s[Len(s)] \in Whitespace THEN RStrip(SubSeq(s, 1, Len(s) - 1)) ELSE s

\* str.strip()
Strip(s) == RStrip(LStrip(s))

\* base64.b64encode(f.read()).decode('utf-8')
B64(data) == <<"b64", data>>

\* f"data:{mime};base64,{payload}"
DataUrl(f) ==
  <<"data:", IF f.type # "" THEN f.type ELSE "image/png", ";base64,", B64(f.data)>>

\* the list comprehension that turns uploaded files into image dicts
ProcessImages(files) ==
  [i \in 1..Len(files) |->
     [mime |-> IF files[i].type # "" THEN files[i].type ELSE "image/png",
      data_url |-> DataUrl(files[i])]]

TextPart(text) == [type |-> "input_text", text |-> Strip(text)]
ImagePart(img) == [type |-> "input_image", image_url |-> img.data_url]

\* variant: the image parts are emitted before the text part
build_input_parts_ImagesFirst(text, imgs) ==
  LET content ==
        [i \in 1..Len(imgs) |-> ImagePart(imgs[i])]
        \o (IF text # <<>> /\ Strip(text) # <<>> THEN <<TextPart(text)>> ELSE <<>>)
  IN IF content # <<>>
       THEN <<[type |-> "message", role |-> "user", content |-> content]>>
       ELSE <<>>

build_input_parts(text, imgs) ==
  LET content ==
        (IF text # <<>> /\ Strip(text) # <<>> THEN <<TextPart(text)>> ELSE <<>>)
        \o [i \in 1..Len(imgs) |-> ImagePart(imgs[i])]
  IN IF content # <<>>
       THEN <<[type |-> "message", role |-> "user", content |-> content]>>
       ELSE <<>>

\* get_text_output: response.output_text, AttributeError when it is missing
get_text_output(resp) == resp.output_text

\* variant: the stored text is the trimmed text sent to the provider
UserMessage_Trimmed(p) == [role |-> "user", content |-> [kind |-> "str", val |-> Strip(p)]]

\* the entries appended to st.session_state.messages
UserMessage(p) == [role |-> "user", content |-> [kind |-> "str", val |-> p]]
AssistantMessage(t) == [role |-> "assistant", content |-> [kind |-> "str", val |-> t]]

\* "if hasattr(response, 'id'): previous_response_id = response.id"
UpdateResponseId(prev, resp) == IF resp.id # NoIdAttr THEN resp.id ELSE prev

\* "not value" for an environment value
Falsy(v) == v \in {Unset, ""}

\* the provider answers only a request that carries a credential and a
\* vector store id; otherwise client.responses.create raises
RemoteAccepts == ~Falsy(OPENAI_API_KEY) /\ ~Falsy(VECTOR_STORE_ID)

\* variant: the uploader keeps one fixed key
UploadKey_Fixed(msgs) == <<"upload_", 0>>

\* key=f"upload_{len(st.session_state.messages)}" of st.file_uploader
UploadKey(msgs) == <<"upload_", Len(msgs)>>

\* variant: the input is accepted while a run is still in progress
CanStartRun_Anytime == TRUE

\* a new run reads st.chat_input only after the previous run has finished
CanStartRun == pc = "idle"

----------------------------------------------------------------------------
(* Session run *)

Init ==
  /\ messages = <<>>
  /\ previous_response_id = None
  /\ pc = "idle"
  /\ prompt = <<>>
  /\ uploaded = <<>>
  /\ images = <<>>
  /\ parts = <<>>
  /\ response = NoResponse
  /\ callToken = None
  /\ ncalls = 0
  /\ inflight = 0
  /\ outcome = "none"
  /\ snap = [messages |-> <<>>, previous_response_id |-> None, ncalls |-> 0]
  /\ lastOk = NoResponse
  /\ OPENAI_API_KEY = "key"
  /\ VECTOR_STORE_ID = "vs"
  /\ warnings = {}

\* variant: the reset forgets previous_response_id
ClearConversation_KeepsToken ==
  /\ CanStartRun
  /\ snap' = [messages |-> messages, previous_response_id |-> previous_response_id,
              ncalls |-> ncalls]
  /\ messages' = <<>>
  /\ outcome' = "cleared"
  /\ lastOk' = NoResponse
  /\ UNCHANGED config
  /\ UNCHANGED <<previous_response_id, pc, prompt, uploaded, images, parts, response,
                 callToken, ncalls, inflight>>

\* sidebar button "Clear Conversation"
ClearConversation ==
  /\ CanStartRun
  /\ snap' = [messages |-> messages, previous_response_id |-> previous_response_id,
              ncalls |-> ncalls]
  /\ messages' = <<>>
  /\ previous_response_id' = None
  /\ outcome' = "cleared"
  /\ lastOk' = NoResponse
  /\ UNCHANGED config
  /\ UNCHANGED <<pc, prompt, uploaded, images, parts, response, callToken, ncalls, inflight>>

\* variant: the prompt is sent but not stored in the history
Submit_NotStored ==
  /\ CanStartRun
  /\ ncalls < MaxCalls
  /\ \E p \in Prompts, files \in Attachments :
       /\ prompt' = p
       /\ uploaded' = files
       /\ images' = ProcessImages(files)
       /\ parts' = build_input_parts(p, ProcessImages(files))
  /\ snap' = [messages |-> messages, previous_response_id |-> previous_response_id,
              ncalls |-> ncalls]
  /\ pc' = "stored"
  /\ UNCHANGED config
  /\ UNCHANGED <<lastOk, messages, previous_response_id, response, callToken, ncalls, inflight,
                 outcome>>

\* "if prompt is not None": encode the images, build the parts, store the
\* user message; the prompt and the files come from the given sets
SubmitWith(prompts, attachments, limit) ==
  /\ CanStartRun
  /\ ncalls < limit
  /\ \E p \in prompts, files \in attachments :
       /\ prompt' = p
       /\ uploaded' = files
       /\ images' = ProcessImages(files)
       /\ parts' = build_input_parts(p, ProcessImages(files))
       /\ messages' = Append(messages, UserMessage(p))
  /\ snap' = [messages |-> messages, previous_response_id |-> previous_response_id,
              ncalls |-> ncalls]
  /\ pc' = "stored"
  /\ UNCHANGED config
  /\ UNCHANGED <<lastOk, previous_response_id, response, callToken, ncalls, inflight, outcome>>

Submit == SubmitWith(Prompts, Attachments, MaxCalls)

\* the same flow for a plain text prompt without attachment
SubmitText == SubmitWith({<<"a">>}, {<<>>}, MaxTextCalls)

\* call_responses_api(parts, st.session_state.previous_response_id): the
\* request goes out and the run blocks on it
call_responses_api ==
  /\ pc = "stored"
  /\ callToken' = previous_response_id
  /\ ncalls' = ncalls + 1
  /\ inflight' = inflight + 1
  /\ pc' = "calling"
  /\ UNCHANGED config
  /\ UNCHANGED <<lastOk, messages, previous_response_id, prompt, uploaded, images, parts,
                 response, outcome, snap>>

\* variant: the answer is stored twice
ResponseOk_StoredTwice ==
  /\ pc = "calling"
  /\ RemoteAccepts
  /\ \E id \in {NoIdAttr, None, ncalls}, text \in OutputTexts :
       LET resp == [id |-> id, output_text |-> text]
       IN /\ response' = resp
          /\ messages' = Append(Append(messages, AssistantMessage(get_text_output(resp))),
                                AssistantMessage(get_text_output(resp)))
          /\ previous_response_id' = UpdateResponseId(previous_response_id, resp)
  /\ inflight' = inflight - 1
  /\ outcome' = "ok"
  /\ pc' = "idle"
  /\ lastOk' = response'
  /\ UNCHANGED config
  /\ UNCHANGED <<prompt, uploaded, images, parts, callToken, ncalls, snap>>

\* variant: the answer is displayed but not stored
ResponseOk_NotStored ==
  /\ pc = "calling"
  /\ RemoteAccepts
  /\ \E id \in {NoIdAttr, None, ncalls}, text \in OutputTexts :
       LET resp == [id |-> id, output_text |-> text]
       IN /\ response' = resp
          /\ previous_response_id' = UpdateResponseId(previous_response_id, resp)
  /\ inflight' = inflight - 1
  /\ outcome' = "ok"
  /\ pc' = "idle"
  /\ lastOk' = response'
  /\ UNCHANGED config
  /\ UNCHANGED <<messages, prompt, uploaded, images, parts, callToken, ncalls, snap>>

\* client.responses.create returned and response.output_text exists
ResponseOk ==
  /\ pc = "calling"
  /\ RemoteAccepts
  /\ \E id \in {NoIdAttr, None, ncalls}, text \in OutputTexts :
       LET resp == [id |-> id, output_text |-> text]
       IN /\ response' = resp
          /\ messages' = Append(messages, AssistantMessage(get_text_output(resp)))
          /\ previous_response_id' = UpdateResponseId(previous_response_id, resp)
  /\ inflight' = inflight - 1
  /\ outcome' = "ok"
  /\ pc' = "idle"
  /\ lastOk' = response'
  /\ UNCHANGED config
  /\ UNCHANGED <<prompt, uploaded, images, parts, callToken, ncalls, snap>>

\* variant: the failed prompt is taken out of the history again
CallRaises_RollsBack ==
  /\ pc = "calling"
  /\ messages' = SubSeq(messages, 1, Len(messages) - 1)
  /\ inflight' = inflight - 1
  /\ outcome' = "error"
  /\ pc' = "idle"
  /\ UNCHANGED config
  /\ UNCHANGED <<lastOk, previous_response_id, prompt, uploaded, images, parts,
                 response, callToken, ncalls, snap>>

\* client.responses.create raised: "except Exception as e: st.error(...)"
CallRaises ==
  /\ pc = "calling"
  /\ inflight' = inflight - 1
  /\ outcome' = "error"
  /\ pc' = "idle"
  /\ UNCHANGED config
  /\ UNCHANGED <<lastOk, messages, previous_response_id, prompt, uploaded, images, parts,
                 response, callToken, ncalls, snap>>

\* variant: the id is stored before the text is extracted
TextExtractionRaises_IdStoredFirst ==
  /\ pc = "calling"
  /\ RemoteAccepts
  /\ \E id \in {NoIdAttr, None, ncalls} :
       LET resp == [id |-> id, output_text |-> NoAttr]
       IN /\ response' = resp
          /\ previous_response_id' = UpdateResponseId(previous_response_id, resp)
  /\ inflight' = inflight - 1
  /\ outcome' = "error"
  /\ pc' = "idle"
  /\ UNCHANGED config
  /\ UNCHANGED <<lastOk, messages, prompt, uploaded, images, parts, callToken, ncalls, snap>>

\* the call returned an object without output_text: get_text_output raises
TextExtractionRaises ==
  /\ pc = "calling"
  /\ RemoteAccepts
  /\ \E id \in {NoIdAttr, None, ncalls} :
       response' = [id |-> id, output_text |-> NoAttr]
  /\ inflight' = inflight - 1
  /\ outcome' = "error"
  /\ pc' = "idle"
  /\ UNCHANGED config
  /\ UNCHANGED <<lastOk, messages, previous_response_id, prompt, uploaded, images, parts,
                 callToken, ncalls, snap>>

Next ==
  \/ ClearConversation
  \/ Submit
  \/ call_responses_api
  \/ ResponseOk
  \/ CallRaises
  \/ TextExtractionRaises

Spec == Init /\ [][Next]_vars

----------------------------------------------------------------------------
(* The text-only session: longer runs of submissions, failures and resets *)

NextText ==
  \/ ClearConversation
  \/ SubmitText
  \/ call_responses_api
  \/ ResponseOk
  \/ CallRaises
  \/ TextExtractionRaises

SpecText == Init /\ [][NextText]_vars

----------------------------------------------------------------------------
(* The session from process start, for every configuration *)

InitConfig ==
  /\ messages = <<>>
  /\ previous_response_id = None
  /\ pc = "start"
  /\ prompt = <<>>
  /\ uploaded = <<>>
  /\ images = <<>>
  /\ parts = <<>>
  /\ response = NoResponse
  /\ callToken = None
  /\ ncalls = 0
  /\ inflight = 0
  /\ outcome = "none"
  /\ snap = [messages |-> <<>>, previous_response_id |-> None, ncalls |-> 0]
  /\ lastOk = NoResponse
  /\ OPENAI_API_KEY \in {Unset, "", "key"}
  /\ VECTOR_STORE_ID \in {Unset, "", "vs"}
  /\ warnings = {}

\* credential loading, OpenAI(api_key=OPENAI_API_KEY), the two warnings;
\* the client constructor raises OpenAIError when the key is None
Startup ==
  /\ pc = "start"
  /\ IF OPENAI_API_KEY = Unset
       THEN /\ pc' = "crashed"
            /\ warnings' = warnings
       ELSE /\ pc' = "idle"
            /\ warnings' =
                 {n \in {"OPENAI_API_KEY"} : Falsy(OPENAI_API_KEY)}
                 \cup {n \in {"VECTOR_STORE_ID"} : Falsy(VECTOR_STORE_ID)}
  /\ UNCHANGED <<messages, previous_response_id, prompt, uploaded, images, parts,
                 response, callToken, ncalls, inflight, outcome, snap, lastOk,
                 OPENAI_API_KEY, VECTOR_STORE_ID>>

NextConfig ==
  \/ Startup
  \/ NextText

SpecConfig == InitConfig /\ [][NextConfig]_vars

----------------------------------------------------------------------------
(* The request builder on its own: all bounded texts and uploads *)

InitBuild ==
  /\ messages = <<>>
  /\ previous_response_id = None
  /\ pc = "input"
  /\ prompt \in Texts
  /\ uploaded \in Uploads
  /\ images = <<>>
  /\ parts = <<>>
  /\ response = NoResponse
  /\ callToken = None
  /\ ncalls = 0
  /\ inflight = 0
  /\ outcome = "none"
  /\ snap = [messages |-> <<>>, previous_response_id |-> None, ncalls |-> 0]
  /\ lastOk = NoResponse
  /\ OPENAI_API_KEY = "key"
  /\ VECTOR_STORE_ID = "vs"
  /\ warnings = {}

\* images = [{...} for f in (uploaded or [])]
EncodeImages ==
  /\ pc = "input"
  /\ images' = ProcessImages(uploaded)
  /\ pc' = "encoded"
  /\ UNCHANGED config
  /\ UNCHANGED <<lastOk, messages, previous_response_id, prompt, uploaded, parts, response,
                 callToken, ncalls, inflight, outcome, snap>>

\* parts = build_input_parts(prompt, images)
BuildParts ==
  /\ pc = "encoded"
  /\ parts' = build_input_parts(prompt, images)
  /\ pc' = "built"
  /\ UNCHANGED config
  /\ UNCHANGED <<lastOk, messages, previous_response_id, prompt, uploaded, images, response,
                 callToken, ncalls, inflight, outcome, snap>>

NextBuild ==
  \/ EncodeImages
  \/ BuildParts

SpecBuild == InitBuild /\ [][NextBuild]_vars

----------------------------------------------------------------------------
(* Properties of the session run *)

IsBlank(text) == \A i \in 1..Len(text) : text[i] \in Whitespace

\* C1: a submission whose text trims to empty and that carries no image
\* issues no remote call and leaves the history and the continuation token
\* as they were.
C1_EmptySubmissionIsNoOp ==
  /\ [][(pc = "idle" /\ pc' # "idle" /\ IsBlank(prompt') /\ uploaded' = <<>>)
          => /\ messages' = messages
             /\ previous_response_id' = previous_response_id]_vars
  /\ [][(IsBlank(prompt) /\ uploaded = <<>>) => ncalls' = ncalls]_vars

\* C2: after a submission whose remote call or text extraction failed, the
\* token is the one from before the submission and the history is the
\* previous history plus the user turn only.
C2_FailurePreservesToken ==
  (pc = "idle" /\ outcome = "error") =>
     /\ previous_response_id = snap.previous_response_id
     /\ Len(messages) = Len(snap.messages) + 1
     /\ SubSeq(messages, 1, Len(snap.messages)) = snap.messages
     /\ messages[Len(messages)].role = "user"
     /\ \A i \in 1..Len(messages) :
          messages[i].role = "assistant" => i <= Len(snap.messages)

C2_Witness ==
  /\ pc = "idle"
  /\ outcome = "error"
  /\ snap.previous_response_id # None
  /\ response.id \notin {NoIdAttr, None, snap.previous_response_id}

\* the token the response of a call carries, absent when it has no id
ExtractedToken(resp) == IF resp.id = NoIdAttr THEN None ELSE resp.id

\* C3: the first call after session start carries no token, and the call
\* that follows a successful call carries the token extracted from that
\* call's response.
C3_Chaining ==
  pc = "calling" =>
     /\ ncalls = 1 => callToken = None
     /\ outcome = "ok" => callToken = ExtractedToken(response)

\* C4: after a successful submission the history is the history from before
\* the submission, then the new user turn, then the new assistant turn with
\* the answer text.
C4_AppendOrderOnSuccess ==
  (pc = "idle" /\ outcome = "ok") =>
     /\ Len(messages) = Len(snap.messages) + 2
     /\ SubSeq(messages, 1, Len(snap.messages)) = snap.messages
     /\ messages[Len(messages) - 1].role = "user"
     /\ messages[Len(messages) - 1].content.val = prompt
     /\ messages[Len(messages)].role = "assistant"
     /\ messages[Len(messages)].content.val = response.output_text

C4_Witness ==
  /\ pc = "idle"
  /\ outcome = "ok"
  /\ Len(snap.messages) >= 2
  /\ response.output_text = "ans"

\* C5: the reset leaves the empty history and no token and issues no remote
\* call; a reset of a reset state changes nothing; the first call after a
\* reset carries no token.
C5_ResetYieldsInitialState ==
  /\ []((pc = "idle" /\ outcome = "cleared") =>
          /\ messages = <<>>
          /\ previous_response_id = None
          /\ ncalls = snap.ncalls
          /\ inflight = 0)
  /\ []((pc = "calling" /\ outcome = "cleared") => callToken = None)
  /\ [][(pc = "idle" /\ outcome = "cleared" /\ pc' = "idle" /\ outcome' = "cleared") =>
          /\ messages' = messages
          /\ previous_response_id' = previous_response_id]_vars

C5_Witness ==
  /\ pc = "idle"
  /\ outcome = "cleared"
  /\ Len(snap.messages) >= 3
  /\ snap.previous_response_id # None
  /\ \E i \in 1..(Len(snap.messages) - 1) :
       snap.messages[i].role = "user" /\ snap.messages[i + 1].role = "user"

\* history render loop: the widgets drawn for one stored message
RenderMessage(m) ==
  IF m.content.kind = "str"
    THEN <<[widget |-> "markdown", arg |-> m.content.val]>>
    ELSE LET listed == m.content.val
             items == IF listed # <<>> /\ listed[1].type = "message"
                        THEN listed[1].content ELSE listed
         IN [i \in 1..Len(items) |->
               IF items[i].type = "input_text"
                 THEN [widget |-> "markdown", arg |-> items[i].text]
                 ELSE [widget |-> "image", arg |-> items[i].image_url]]

IsImageWidget(w) == w.widget = "image"
RenderedImages(m) == SelectSeq(RenderMessage(m), IsImageWidget)

\* C7: after a successful call whose response has no identifier the token
\* is absent, and so is the token of the next remote call.
C7_NoIdentifierClearsToken ==
  /\ (pc = "idle" /\ outcome = "ok" /\ response.id = NoIdAttr)
        => previous_response_id = None
  /\ (pc = "calling" /\ outcome = "ok" /\ response.id = NoIdAttr)
        => callToken = None

C9_UserTurnBeforeCall ==
  /\ [][ncalls' > ncalls =>
          /\ Len(messages) = Len(snap.messages) + 1
          /\ messages[Len(messages)] =
               [role |-> "user", content |-> [kind |-> "str", val |-> prompt]]
          /\ messages' = messages]_vars
  /\ []((pc = "idle" /\ outcome \in {"ok", "error"}) =>
          /\ Len(messages) > Len(snap.messages)
          /\ messages[Len(snap.messages) + 1].role = "user"
          /\ messages[Len(snap.messages) + 1].content.val = prompt)

C9_Witness ==
  /\ pc = "calling"
  /\ Len(messages) = 3
  /\ messages[Len(messages)].role = "user"
  /\ messages[2].role = "assistant"

\* C10 as stated: the stored user turn holds the content parts built for
\* the provider, so it records every image of the submission.
C10_UserTurnHoldsParts ==
  pc \in {"stored", "calling"} =>
     /\ messages[Len(messages)].content.kind = "list"
     /\ messages[Len(messages)].content.val = parts
     /\ Len(RenderedImages(messages[Len(messages)])) = Len(images)

\* C10 as amended: the stored user turn holds the prompt string exactly as
\* typed (not trimmed) and nothing else; no image of the submission is
\* recorded in the history.
C10_UserTurnHoldsPromptText ==
  /\ pc \in {"stored", "calling"} =>
       messages[Len(messages)].content = [kind |-> "str", val |-> prompt]
  /\ \A i \in 1..Len(messages) :
       messages[i].role = "user" =>
         /\ messages[i].content.kind = "str"
         /\ messages[i].content.val \in Prompts
         /\ RenderedImages(messages[i]) = <<>>

C10_Witness ==
  /\ pc = "calling"
  /\ Len(images) = 2
  /\ prompt # Strip(prompt)
  /\ Len(parts[1].content) = 3

\* C11: every remote call is issued by one submission and a failed call is
\* not issued again on its own; after a failure the session takes the next
\* submission, whose call carries the token of the last successful call, or
\* no token when no call has succeeded since the start or the last reset.
C11_NoRetryAndRechaining ==
  /\ [][ncalls' > ncalls => (ncalls' = ncalls + 1 /\ pc = "stored")]_vars
  /\ [][(pc = "idle" /\ outcome = "error") => ncalls' = ncalls]_vars
  /\ []((pc = "idle" /\ outcome = "error" /\ ncalls < MaxTextCalls) => ENABLED SubmitText)
  /\ []((pc = "calling" /\ outcome = "error") => callToken = ExtractedToken(lastOk))

\* C12: after every processed submission, successful or failed, the key of
\* the upload control in the next run differs from the key that was in
\* effect during the submission.
C12_UploadKeyRefreshed ==
  (pc = "idle" /\ outcome \in {"ok", "error"}) =>
     UploadKey(messages) # UploadKey(snap.messages)

C12_Witness ==
  /\ pc = "idle"
  /\ outcome = "error"
  /\ uploaded # <<>>
  /\ Len(snap.messages) >= 2

\* C13: a successful call whose response has the empty output text counts
\* as a success: the assistant turn with the empty string is appended and
\* the continuation token is the one of that response.
C13_EmptyAnswerIsSuccess ==
  (pc = "idle" /\ outcome = "ok" /\ response.output_text = "") =>
     /\ messages[Len(messages)] =
          [role |-> "assistant", content |-> [kind |-> "str", val |-> ""]]
     /\ previous_response_id = ExtractedToken(response)

IsPrefix(s, t) == Len(s) <= Len(t) /\ SubSeq(t, 1, Len(s)) = s

\* C15: every step other than the reset keeps the previous history as a
\* prefix of the new history; only the reset shortens it.
C15_HistoryAppendOnly ==
  /\ [][~(pc = "idle" /\ pc' = "idle") => IsPrefix(messages, messages')]_vars
  /\ [][~IsPrefix(messages, messages') =>
          pc = "idle" /\ outcome' = "cleared" /\ messages' = <<>>]_vars

C15_Witness ==
  /\ pc = "idle"
  /\ outcome = "error"
  /\ Len(messages) >= 4
  /\ IsBlank(prompt)

NumTurns(role) == Cardinality({i \in 1..Len(messages) : messages[i].role = role})

MissingConfig ==
  {n \in {"OPENAI_API_KEY"} : OPENAI_API_KEY \in {Unset, ""}}
  \cup {n \in {"VECTOR_STORE_ID"} : VECTOR_STORE_ID \in {Unset, ""}}

\* C14: with the credential or the vector store id missing the startup does
\* not crash, every missing value has its warning before any submission is
\* processed, and the failure shows only as a failed remote call.
C14_MissingConfigFailsLate ==
  /\ pc # "crashed"
  /\ pc # "start" => warnings = MissingConfig
  /\ MissingConfig # {} => (outcome # "ok" /\ NumTurns("assistant") = 0)

\* C16: every assistant turn in the history is immediately preceded by a
\* user turn, so the history never starts with an assistant turn, never has
\* two assistant turns in a row and never has more assistant than user turns.
C16_AssistantFollowsUser ==
  /\ \A i \in 1..Len(messages) :
       messages[i].role = "assistant" => (i > 1 /\ messages[i - 1].role = "user")
  /\ NumTurns("assistant") <= NumTurns("user")

C16_Witness ==
  /\ Len(messages) = 4
  /\ messages[1].role = "user"
  /\ messages[2].role = "user"
  /\ messages[3].role = "assistant"
  /\ messages[4].role = "user"

\* C17: whenever the continuation token is present the history holds at
\* least one assistant turn.
C17_TokenImpliesAssistantTurn ==
  previous_response_id # None => NumTurns("assistant") >= 1

C17_Witness ==
  /\ pc = "idle"
  /\ outcome = "error"
  /\ previous_response_id # None
  /\ Len(messages) = 3

----------------------------------------------------------------------------
(* Properties of the request builder *)

\* t is s without its leading and trailing whitespace
IsTrimOf(t, s) ==
  \E i \in 1..Len(s), j \in 1..Len(s) :
    /\ i <= j
    /\ s[i] \notin Whitespace
    /\ s[j] \notin Whitespace
    /\ \A k \in 1..Len(s) : (k < i \/ k > j) => s[k] \in Whitespace
    /\ Len(t) = j - i + 1
    /\ \A k \in 1..Len(t) : t[k] = s[i + k - 1]

\* C6: build_input_parts returns the empty sequence when the text trims to
\* empty and there is no image; otherwise a non-empty result whose content
\* parts are the trimmed text part (present iff the text trims to non-empty)
\* followed by one image part per image, in upload order. The session state
\* is untouched.
C6_BuildInputParts ==
  pc = "built" =>
    LET hasText == ~IsBlank(prompt)
        offset == IF hasText THEN 1 ELSE 0
    IN /\ (~hasText /\ images = <<>>) => parts = <<>>
       /\ (hasText \/ images # <<>>) =>
            /\ Len(parts) = 1
            /\ parts[1].type = "message"
            /\ parts[1].role = "user"
            /\ Len(parts[1].content) = offset + Len(images)
            /\ hasText =>
                 /\ parts[1].content[1].type = "input_text"
                 /\ IsTrimOf(parts[1].content[1].text, prompt)
            /\ \A k \in 1..Len(images) :
                 /\ parts[1].content[offset + k].type = "input_image"
                 /\ parts[1].content[offset + k].image_url = images[k].data_url
       /\ Len(images) = Len(uploaded)
       /\ messages = <<>>
       /\ previous_response_id = None

C6_Witness ==
  /\ pc = "built"
  /\ Len(prompt) = 3
  /\ prompt[1] \in Whitespace
  /\ prompt[2] \notin Whitespace
  /\ prompt[3] \in Whitespace
  /\ Len(images) = 2
  /\ images[1].data_url # images[2].data_url
  /\ Len(parts[1].content) = 3

====
